---- MODULE Spec2Model ----
(***************************************************************************)
(* The CSV-to-Avro batch writer (src/code/avro_serializer.py) and the      *)
(* batch reader (src/code/avro_deserializer.py).                           *)
(*                                                                         *)
(* A text is a sequence of one-character strings; a byte is an integer.    *)
(* A Python value that may be None, a dict, a tuple or a schema is a       *)
(* record with a "kind" field, so that values of different kinds can be    *)
(* compared.                                                               *)
(***************************************************************************)
EXTENDS Integers, Sequences, FiniteSets, TLC

VARIABLES rows, pc, handles, idx, files, stdout, exc, last, rpc, surfaced

vars == <<rows, pc, handles, idx, files, stdout, exc, last, rpc, surfaced>>

-----------------------------------------------------------------------------
(* Python values *)

None == [kind |-> "None"]

Tuple(items) == [kind |-> "tuple", items |-> items]

Raised(e) == [kind |-> "raise", exc |-> e]

\* bool(v) of the values that reach the writer's "and schema" test
Truthy(v) ==
    CASE v.kind = "None" -> FALSE
      [] v.kind = "tuple" -> Len(v.items) > 0
      [] OTHER -> TRUE

-----------------------------------------------------------------------------
(* str: the methods and conversions the parsers use *)

\* the printable ASCII characters, code points 32..95 and 97..126
AsciiLow == <<" ","!","\"","#","$","%","&","'","(",")","*","+",",","-",".","/","0","1","2","3","4","5","6","7","8","9",":",";","<","=",">","?","@","A","B","C","D","E","F","G","H","I","J","K","L","M","N","O","P","Q","R","S","T","U","V","W","X","Y","Z","[","\\","]","^","_">>

AsciiHigh == <<"a","b","c","d","e","f","g","h","i","j","k","l","m","n","o","p","q","r","s","t","u","v","w","x","y","z","{","|","}","~">>

\* ord(c), and the byte str.encode("utf-8") gives for an ASCII character
Ord(c) ==
    IF \E i \in 1..Len(AsciiLow) : AsciiLow[i] = c
    THEN 31 + (CHOOSE i \in 1..Len(AsciiLow) : AsciiLow[i] = c)
    ELSE 96 + (CHOOSE i \in 1..Len(AsciiHigh) : AsciiHigh[i] = c)

\* chr(n) for 32 <= n <= 126, n # 96
Chr(n) == IF n < 96 THEN AsciiLow[n - 31] ELSE AsciiHigh[n - 96]

IsDigit(c) == c \in {"0", "1", "2", "3", "4", "5", "6", "7", "8", "9"}

DigitValue(c) == Ord(c) - 48

IsSpace(c) == c \in {" ", "\t", "\n", "\r", "\f"}

\* s has the literal text lit at position i (1-based)
HasAt(s, i, lit) ==
    /\ i >= 1
    /\ i + Len(lit) - 1 <= Len(s)
    /\ \A k \in 1..Len(lit) : s[i + k - 1] = lit[k]

SetMin(S) == CHOOSE x \in S : \A y \in S : x <= y

SetMax(S) == CHOOSE x \in S : \A y \in S : x >= y

MinOrZero(P) == IF P = {} THEN 0 ELSE SetMin(P)

\* str.find from position i: the first position of sep, 0 when there is none
Find(s, sep, i) == MinOrZero({p \in i..Len(s) : HasAt(s, p, sep)})

RECURSIVE Split(_, _)

\* the split at position p, the first occurrence of sep (0: there is none)
SplitAt(s, sep, p) ==
    IF p = 0
    THEN <<s>>
    ELSE <<SubSeq(s, 1, p - 1)>> \o Split(SubSeq(s, p + Len(sep), Len(s)), sep)

\* str.split(sep) with a non-empty separator: every occurrence splits
Split(s, sep) == SplitAt(s, sep, Find(s, sep, 1))

RECURSIVE Join(_, _)
Join(parts, sep) ==
    IF Len(parts) = 1
    THEN parts[1]
    ELSE parts[1] \o sep \o Join(Tail(parts), sep)

\* seq[-1]
LastOf(q) == q[Len(q)]

\* str.replace(old, new, 1): the first occurrence only
ReplaceFirst(s, old, new) ==
    IF Find(s, old, 1) = 0
    THEN s
    ELSE SubSeq(s, 1, Find(s, old, 1) - 1) \o new
            \o SubSeq(s, Find(s, old, 1) + Len(old), Len(s))

\* str.replace(old, new): every occurrence of old, left to right
Replace(s, old, new) == Join(Split(s, old), new)

Between(s, K) == IF K = {} THEN <<>> ELSE SubSeq(s, SetMin(K), SetMax(K))

\* str.strip() as int() applies it before reading the literal
Strip(s) == Between(s, {k \in 1..Len(s) : ~IsSpace(s[k])})

\* the text after an optional sign
Unsigned(t) == IF Len(t) > 0 /\ t[1] \in {"+", "-"} THEN Tail(t) ELSE t

\* an unsigned literal: digits, single underscores between digits
IsLiteral(b) ==
    /\ Len(b) > 0
    /\ IsDigit(b[1])
    /\ IsDigit(b[Len(b)])
    /\ \A k \in 1..Len(b) : IsDigit(b[k]) \/ b[k] = "_"
    /\ \A k \in 1..(Len(b) - 1) : ~(b[k] = "_" /\ b[k + 1] = "_")

\* int(s) succeeds: optional sign, then the literal
IntParses(s) == IsLiteral(Unsigned(Strip(s)))

RECURSIVE DigitsValue(_)
DigitsValue(b) ==
    IF Len(b) = 0 THEN 0
    ELSE IF b[Len(b)] = "_" THEN DigitsValue(SubSeq(b, 1, Len(b) - 1))
    ELSE 10 * DigitsValue(SubSeq(b, 1, Len(b) - 1)) + DigitValue(b[Len(b)])

Signed(t) == IF t[1] = "-" THEN 0 - DigitsValue(Unsigned(t)) ELSE DigitsValue(Unsigned(t))

\* the value of int(s) where IntParses(s)
IntValue(s) == Signed(Strip(s))

-----------------------------------------------------------------------------
(* re: the pieces of the two patterns *)

\* \d{4}-\d{2}-\d{2}T\d{2}:\d{2}:\d{2}, "d" standing for \d
TimestampShape == <<"d","d","d","d","-","d","d","-","d","d","T","d","d",":","d","d",":","d","d">>

MatchShape(s, i, shape) ==
    /\ i + Len(shape) - 1 <= Len(s)
    /\ \A k \in 1..Len(shape) :
         IF shape[k] = "d" THEN IsDigit(s[i + k - 1]) ELSE s[i + k - 1] = shape[k]

\* \d+ at position i: every position at which the run of digits may end
DigitEnds(s, i) ==
    {e \in (i + 1)..(Len(s) + 1) : \A k \in i..(e - 1) : IsDigit(s[k])}

\* "." matches any character but a newline
NoNewline(s, i, e) == \A k \in i..(e - 1) : s[k] # "\n"

-----------------------------------------------------------------------------
(* parse_movie_watch *)

GetPrefix == <<",","G","E","T"," ","/","d","a","t","a","/","m","/">>

MpgSuffix == <<".","m","p","g">>

\* (\d+)\.mpg at position f: where the digits end
MinuteEnds(s, f) == {g \in DigitEnds(s, f) : HasAt(s, g, MpgSuffix)}

\* (.+?)/(\d+)\.mpg at position m: where the lazy group may end (at the "/")
MovieIdEnds(s, m) ==
    {f \in (m + 1)..Len(s) :
        /\ NoNewline(s, m, f)
        /\ s[f] = "/"
        /\ MinuteEnds(s, f + 1) # {}}

\* ,(\d+),GET /data/m/... at position a (the ","): where the userid digits end
MovieUserEnds(s, a) ==
    {e \in DigitEnds(s, a + 1) :
        /\ HasAt(s, e, GetPrefix)
        /\ MovieIdEnds(s, e + Len(GetPrefix)) # {}}

MovieMatchesAt(s, i) ==
    /\ MatchShape(s, i, TimestampShape)
    /\ HasAt(s, i + Len(TimestampShape), <<",">>)
    /\ MovieUserEnds(s, i + Len(TimestampShape)) # {}

\* the groups of a match, given where it starts (i) and where its timestamp (a),
\* userid (e), movieid (f) and minute (g) end
MovieGroupsAt(s, i, a, e, f, g) ==
    [time |-> SubSeq(s, i, a - 1),
     userid |-> SubSeq(s, a + 1, e - 1),
     movieid |-> SubSeq(s, e + Len(GetPrefix), f - 1),
     minute |-> SubSeq(s, f + 1, g - 1)]

\* (\d+)\.mpg is greedy
MovieAfterId(s, i, a, e, f) ==
    MovieGroupsAt(s, i, a, e, f, SetMax(MinuteEnds(s, f + 1)))

\* (.+?) is lazy: the first "/" after which the rest matches
MovieAfterUser(s, i, a, e) ==
    MovieAfterId(s, i, a, e, SetMin(MovieIdEnds(s, e + Len(GetPrefix))))

\* (\d+) is greedy
MovieAfterTime(s, i, a) == MovieAfterUser(s, i, a, SetMax(MovieUserEnds(s, a)))

\* the groups of the match that starts at i
MovieGroups(s, i) == MovieAfterTime(s, i, i + Len(TimestampShape))

\* re.search: the leftmost position at which the pattern matches, 0 for no match
MovieSearch(s) == MinOrZero({i \in 1..Len(s) : MovieMatchesAt(s, i)})

\* the record built from match.groups()
MovieRecord(g) ==
    [kind |-> "dict",
     time |-> g.time,
     userid |-> IntValue(g.userid),
     movieid |-> Replace(g.movieid, <<"+">>, <<" ">>),
     minute |-> g.minute]

MovieResult(entry, i) == IF i = 0 THEN None ELSE MovieRecord(MovieGroups(entry, i))

parse_movie_watch(entry) == MovieResult(entry, MovieSearch(entry))

-----------------------------------------------------------------------------
(* parse_recommendation *)

RecRequest == <<",","r","e","c","o","m","m","e","n","d","a","t","i","o","n"," ","r","e","q","u","e","s","t"," ">>

RecStatus == <<","," ","s","t","a","t","u","s"," ">>

RecResult == <<","," ","r","e","s","u","l","t",":"," ">>

RecSep == <<","," ">>

RecMs == <<" ","m","s">>

\* (.*?), (\d+) ms at position r: where the lazy result group may end
ResultEnds(s, r) ==
    {p \in r..Len(s) :
        /\ NoNewline(s, r, p)
        /\ HasAt(s, p, RecSep)
        /\ \E g \in DigitEnds(s, p + Len(RecSep)) : HasAt(s, g, RecMs)}

\* (.*?), result: ... at position q: where the lazy status group may end
StatusEnds(s, q) ==
    {p \in q..Len(s) :
        /\ NoNewline(s, q, p)
        /\ HasAt(s, p, RecResult)
        /\ ResultEnds(s, p + Len(RecResult)) # {}}

\* (.*?), status ... at position v: where the lazy server group may end
ServerEnds(s, v) ==
    {p \in v..Len(s) :
        /\ NoNewline(s, v, p)
        /\ HasAt(s, p, RecStatus)
        /\ StatusEnds(s, p + Len(RecStatus)) # {}}

\* ,(\d+),recommendation request ... at position a (the ",")
RecUserEnds(s, a) ==
    {e \in DigitEnds(s, a + 1) :
        /\ HasAt(s, e, RecRequest)
        /\ ServerEnds(s, e + Len(RecRequest)) # {}}

\* \.\d+,(\d+),... at position d (the "."): where the fraction digits end
FractionEnds(s, d) ==
    {a \in DigitEnds(s, d + 1) :
        /\ HasAt(s, a, <<",">>)
        /\ RecUserEnds(s, a) # {}}

RecMatchesAt(s, i) ==
    /\ MatchShape(s, i, TimestampShape)
    /\ HasAt(s, i + Len(TimestampShape), <<".">>)
    /\ FractionEnds(s, i + Len(TimestampShape)) # {}

\* the groups of a match, given where it starts (i) and where its fraction (a),
\* userid (e), server (p1), status (p2), result (p3) and response time (g) end
RecGroupsAt(s, i, a, e, p1, p2, p3, g) ==
    [time |-> SubSeq(s, i, a - 1),
     userid |-> SubSeq(s, a + 1, e - 1),
     server |-> SubSeq(s, e + Len(RecRequest), p1 - 1),
     status |-> SubSeq(s, p1 + Len(RecStatus), p2 - 1),
     results |-> SubSeq(s, p2 + Len(RecResult), p3 - 1),
     responsetime |-> SubSeq(s, p3 + Len(RecSep), g - 1)]

\* (\d+) ms is greedy
RecAfterResult(s, i, a, e, p1, p2, p3) ==
    RecGroupsAt(s, i, a, e, p1, p2, p3,
                SetMax({x \in DigitEnds(s, p3 + Len(RecSep)) : HasAt(s, x, RecMs)}))

\* the three (.*?) are lazy: each ends at the first place after which the rest matches
RecAfterStatus(s, i, a, e, p1, p2) ==
    RecAfterResult(s, i, a, e, p1, p2, SetMin(ResultEnds(s, p2 + Len(RecResult))))

RecAfterServer(s, i, a, e, p1) ==
    RecAfterStatus(s, i, a, e, p1, SetMin(StatusEnds(s, p1 + Len(RecStatus))))

RecAfterUser(s, i, a, e) ==
    RecAfterServer(s, i, a, e, SetMin(ServerEnds(s, e + Len(RecRequest))))

\* the two \d+ are greedy
RecAfterFraction(s, i, a) == RecAfterUser(s, i, a, SetMax(RecUserEnds(s, a)))

\* the groups of the match that starts at i
RecGroups(s, i) ==
    RecAfterFraction(s, i, SetMax(FractionEnds(s, i + Len(TimestampShape))))

\* re.search: the leftmost position at which the pattern matches, 0 for no match
RecSearch(s) == MinOrZero({i \in 1..Len(s) : RecMatchesAt(s, i)})

\* the record built from recommendation_match.groups(); int(status) may raise
RecRecord(g) ==
    IF ~IntParses(g.status)
    THEN Raised("ValueError")
    ELSE [kind |-> "dict",
          time |-> g.time,
          userid |-> IntValue(g.userid),
          server |-> g.server,
          status |-> IntValue(g.status),
          recommendations |-> Split(g.results, RecSep),
          responsetime |-> g.responsetime \o RecMs]

RecResultOf(log_entry, i) ==
    IF i = 0 THEN None ELSE RecRecord(RecGroups(log_entry, i))

parse_recommendation(log_entry) == RecResultOf(log_entry, RecSearch(log_entry))

-----------------------------------------------------------------------------
(* parse_rating *)

\* as RatingRecord, had the third part been split once: rating is all that
\* follows the first "="
RatingRecordSplitOnce(parts, movie_rating) ==
    IF Len(movie_rating) < 2
    THEN Raised("IndexError")
    ELSE [kind |-> "dict",
          time |-> parts[1],
          userid |-> IntValue(parts[2]),
          movieid |-> LastOf(Split(movie_rating[1], <<"/">>)),
          rating |-> Join(Tail(movie_rating), <<"=">>)]

\* movie_rating = parts[2].split('='); the record is built from its first two items
RatingRecord(parts, movie_rating) ==
    IF Len(movie_rating) < 2
    THEN Raised("IndexError")
    ELSE [kind |-> "dict",
          time |-> parts[1],
          userid |-> IntValue(parts[2]),
          movieid |-> LastOf(Split(movie_rating[1], <<"/">>)),
          rating |-> movie_rating[2]]

\* parts = log_entry.split(','): parts[1] and parts[2] may not exist, int() may raise
RatingFromParts(parts) ==
    IF Len(parts) < 2 THEN Raised("IndexError")
    ELSE IF ~IntParses(parts[2]) THEN Raised("ValueError")
    ELSE IF Len(parts) < 3 THEN Raised("IndexError")
    ELSE RatingRecord(parts, Split(parts[3], <<"=">>))

parse_rating(log_entry) == RatingFromParts(Split(log_entry, <<",">>))

-----------------------------------------------------------------------------
(* the three schemas, loaded from the .avsc files (fields and primitive types) *)

Field(n, t) == [name |-> n, type |-> t]

recommendation_request_schema ==
    [kind |-> "schema", name |-> "recommendation_request",
     fields |-> <<Field("time", "string"), Field("userid", "int"),
                  Field("server", "string"), Field("status", "int"),
                  Field("recommendations", "array"),
                  Field("responsetime", "string")>>]

movie_watch_schema ==
    [kind |-> "schema", name |-> "movie_watch",
     fields |-> <<Field("time", "string"), Field("userid", "int"),
                  Field("movieid", "string"), Field("minute", "string")>>]

movie_rating_schema ==
    [kind |-> "schema", name |-> "movie_rating",
     fields |-> <<Field("time", "string"), Field("userid", "int"),
                  Field("movieid", "string"), Field("rating", "string")>>]

-----------------------------------------------------------------------------
(* encode_avro: the Avro binary encoding of one record, field after field *)

RECURSIVE Varint(_)
\* base-128 little-endian groups, the high bit set on all but the last byte
Varint(z) ==
    IF z < 128 THEN <<z>> ELSE <<(z % 128) + 128>> \o Varint(z \div 128)

\* int and long: zig-zag, then variable-length
WriteLong(n) == Varint(IF n >= 0 THEN 2 * n ELSE (0 - 2 * n) - 1)

\* string: the byte count, then the UTF-8 bytes
WriteUtf8(s) == WriteLong(Len(s)) \o [k \in 1..Len(s) |-> Ord(s[k])]

RECURSIVE WriteItems(_)
WriteItems(items) ==
    IF Len(items) = 0 THEN <<>> ELSE WriteUtf8(items[1]) \o WriteItems(Tail(items))

\* array of strings: one block with the item count, then the 0 that ends it
WriteArray(items) ==
    (IF Len(items) > 0 THEN WriteLong(Len(items)) \o WriteItems(items) ELSE <<>>)
        \o WriteLong(0)

WriteValue(type, v) ==
    CASE type = "string" -> WriteUtf8(v)
      [] type = "int" -> WriteLong(v)
      [] type = "array" -> WriteArray(v)

RECURSIVE WriteFields(_, _)
WriteFields(data, fields) ==
    IF Len(fields) = 0
    THEN <<>>
    ELSE WriteValue(fields[1].type, data[fields[1].name])
            \o WriteFields(data, Tail(fields))

encode_avro(data, schema) == WriteFields(data, schema.fields)

-----------------------------------------------------------------------------
(* identify_and_parse_log_entry *)

Returned(v) == [kind |-> "return", value |-> v]

\* "return data, schema if data else (None, None)": the conditional expression
\* is the second item of the returned pair
DataAndSchema(data, schema) ==
    IF data.kind = "raise"
    THEN data
    ELSE Returned(<<data, IF Truthy(data) THEN schema ELSE Tuple(<<None, None>>)>>)

\* as identify_and_parse_log_entry, with the last branch taken for every other tag
identify_without_else(log_type, log_entry) ==
    IF log_type = "Recommendation"
    THEN DataAndSchema(parse_recommendation(log_entry), recommendation_request_schema)
    ELSE IF log_type = "Movie"
    THEN DataAndSchema(parse_movie_watch(log_entry), movie_watch_schema)
    ELSE DataAndSchema(parse_rating(log_entry), movie_rating_schema)

identify_and_parse_log_entry(log_type, log_entry) ==
    IF log_type = "Recommendation"
    THEN DataAndSchema(parse_recommendation(log_entry), recommendation_request_schema)
    ELSE IF log_type = "Movie"
    THEN DataAndSchema(parse_movie_watch(log_entry), movie_watch_schema)
    ELSE IF log_type = "Rating"
    THEN DataAndSchema(parse_rating(log_entry), movie_rating_schema)
    ELSE Returned(<<None, None>>)

\* what the parsers and the dispatcher print while handling one row
Diagnostics(log_type, log_entry, data) ==
    IF log_type = "Recommendation"
    THEN IF data = None
         THEN <<[msg |-> "Could not parse recommendation log entry", entry |-> log_entry]>>
         ELSE <<>>
    ELSE IF log_type = "Movie"
    THEN IF data = None
         THEN <<[msg |-> "Unexpected format for Movie Watch log entry", entry |-> log_entry]>>
         ELSE <<>>
    ELSE IF log_type = "Rating"
    THEN <<>>
    ELSE <<[msg |-> "Skipping unknown log entry type", type |-> log_type]>>

-----------------------------------------------------------------------------
(* the batch writer: the with-block and its loop over the CSV rows *)

Categories == {"Recommendation", "Movie", "Rating"}

\* the handles in the order the with statement opens them
HandleOrder == <<"csvfile", "Recommendation", "Movie", "Rating">>

\* file_objects: the output handle of each category
file_objects == [c \in Categories |-> c]

Unopened == [h \in {HandleOrder[k] : k \in 1..Len(HandleOrder)} |-> "unopened"]

\* the first n handles of the with statement in state st
WithFirst(hs, n, st) ==
    [h \in DOMAIN hs |->
        IF \E k \in 1..n : HandleOrder[k] = h THEN st ELSE hs[h]]

\* __exit__ of the with statement: every handle that was opened is closed
CloseAll(hs) == [h \in DOMAIN hs |-> IF hs[h] = "open" THEN "closed" ELSE hs[h]]

\* open(..., "wb") creates or truncates the file
Truncated(fs, hs) == [c \in Categories |-> IF hs[c] = "unopened" THEN fs[c] ELSE <<>>]

\* the three load_schema calls at the top of the script: a schema file that
\* cannot be opened ends the run before any other file is touched
LoadSchemas ==
    /\ pc = "start"
    /\ \E loaded \in BOOLEAN :
         IF loaded
         THEN pc' = "schemas" /\ exc' = exc
         ELSE pc' = "aborted" /\ exc' = Raised("OSError")
    /\ UNCHANGED <<rows, handles, idx, files, stdout, last, rpc, surfaced>>

\* the with statement's header after n successful open() calls: with all four
\* open the loop starts; otherwise open() number n + 1 raised, which closes the
\* handles opened before it and ends the run
Opened(n, opened) ==
    /\ files' = Truncated(files, opened)
    /\ IF n = Len(HandleOrder)
       THEN /\ handles' = opened
            /\ pc' = "loop"
            /\ exc' = exc
       ELSE /\ handles' = CloseAll(opened)
            /\ pc' = "aborted"
            /\ exc' = Raised("OSError")

OpenFiles ==
    /\ pc = "schemas"
    /\ \E n \in 0..Len(HandleOrder) : Opened(n, WithFirst(handles, n, "open"))
    /\ UNCHANGED <<rows, idx, stdout, last, rpc, surfaced>>

\* as WriteOrSkip, writing at the start of the file instead of its end
WriteOrSkipAtFront(row, parsed_data, schema) ==
    /\ IF parsed_data # None /\ Truthy(schema)
       THEN /\ files' = [files EXCEPT ![file_objects[row.Type]] =
                            encode_avro(parsed_data, schema) \o @]
            /\ stdout' = stdout
       ELSE /\ files' = files
            /\ stdout' = stdout
                  \o Diagnostics(row.Type, row.LogEntry, parsed_data)
                  \o <<[msg |-> "Skipping log entry due to parsing error",
                        entry |-> row.LogEntry]>>
    /\ idx' = idx + 1
    /\ UNCHANGED <<handles, pc, exc>>

\* the body of the loop once the dispatcher has returned (parsed_data, schema)
WriteOrSkip(row, parsed_data, schema) ==
    /\ IF parsed_data # None /\ Truthy(schema)
       THEN /\ files' = [files EXCEPT ![file_objects[row.Type]] =
                            @ \o encode_avro(parsed_data, schema)]
            /\ stdout' = stdout
       ELSE /\ files' = files
            /\ stdout' = stdout
                  \o Diagnostics(row.Type, row.LogEntry, parsed_data)
                  \o <<[msg |-> "Skipping log entry due to parsing error",
                        entry |-> row.LogEntry]>>
    /\ idx' = idx + 1
    /\ UNCHANGED <<handles, pc, exc>>

\* as Propagate, had the files been opened without the with statement
PropagateLeavingOpen(r) ==
    /\ handles' = handles
    /\ pc' = "aborted"
    /\ exc' = r
    /\ UNCHANGED <<idx, files, stdout>>

\* an exception of the dispatcher leaves the with-block, which closes the
\* handles, and ends the script
Propagate(r) ==
    /\ handles' = CloseAll(handles)
    /\ pc' = "aborted"
    /\ exc' = r
    /\ UNCHANGED <<idx, files, stdout>>

\* one iteration with r the outcome of identify_and_parse_log_entry
Iteration(row, r) ==
    /\ last' = r
    /\ IF r.kind = "raise"
       THEN Propagate(r)
       ELSE WriteOrSkip(row, r.value[1], r.value[2])

\* one iteration of "for row in reader"
ProcessRow ==
    /\ pc = "loop"
    /\ idx < Len(rows)
    /\ Iteration(rows[idx + 1],
                 identify_and_parse_log_entry(rows[idx + 1].Type, rows[idx + 1].LogEntry))
    /\ UNCHANGED <<rows, rpc, surfaced>>

\* the reader is exhausted: the with-block ends and the confirmation is printed
Finish ==
    /\ pc = "loop"
    /\ idx = Len(rows)
    /\ handles' = CloseAll(handles)
    /\ stdout' = stdout \o <<[msg |-> "Binary Avro data has been written to files."]>>
    /\ pc' = "done"
    /\ UNCHANGED <<rows, idx, files, exc, last, rpc, surfaced>>

-----------------------------------------------------------------------------
(* decode_avro: one datum read from the front of the bytes *)

Failed == [ok |-> FALSE]

Read(v, p) == [ok |-> TRUE, val |-> v, pos |-> p]

RECURSIVE ReadVarint(_, _)

\* a byte with the high bit set is followed by the higher groups
Continued(byte, r) ==
    IF r.ok THEN Read((byte % 128) + 128 * r.val, r.pos) ELSE Failed

\* the bytes of one variable-length number; reading past the end fails
ReadVarint(b, pos) ==
    IF pos > Len(b)
    THEN Failed
    ELSE IF b[pos] < 128
    THEN Read(b[pos], pos + 1)
    ELSE Continued(b[pos], ReadVarint(b, pos + 1))

\* zig-zag, undone
Unzigzag(r) ==
    IF r.ok
    THEN Read(IF r.val % 2 = 0 THEN r.val \div 2 ELSE 0 - ((r.val + 1) \div 2), r.pos)
    ELSE Failed

ReadLong(b, pos) == Unzigzag(ReadVarint(b, pos))

\* the n.val bytes after the byte count, as text
ReadBytes(b, n) ==
    IF n.ok /\ n.val >= 0 /\ n.pos + n.val - 1 <= Len(b)
    THEN Read([k \in 1..n.val |-> Chr(b[n.pos + k - 1])], n.pos + n.val)
    ELSE Failed

ReadUtf8(b, pos) == ReadBytes(b, ReadLong(b, pos))

RECURSIVE ReadItems(_, _, _, _)

ReadItemsAfter(b, r, n, acc) ==
    IF r.ok THEN ReadItems(b, r.pos, n - 1, Append(acc, r.val)) ELSE Failed

\* n more items of an array block
ReadItems(b, pos, n, acc) ==
    IF n = 0 THEN Read(acc, pos) ELSE ReadItemsAfter(b, ReadUtf8(b, pos), n, acc)

RECURSIVE ReadBlocks(_, _, _)

ReadItemsAfterSize(b, size, n, acc) ==
    IF size.ok THEN ReadItems(b, size.pos, n, acc) ELSE Failed

ReadBlocksAfter(b, items) ==
    IF items.ok THEN ReadBlocks(b, items.pos, items.val) ELSE Failed

\* a block of count c.val; a negative count is followed by the block's size
ReadBlock(b, c, acc) ==
    IF ~c.ok THEN Failed
    ELSE IF c.val = 0 THEN Read(acc, c.pos)
    ELSE IF c.val > 0 THEN ReadBlocksAfter(b, ReadItems(b, c.pos, c.val, acc))
    ELSE ReadBlocksAfter(b, ReadItemsAfterSize(b, ReadLong(b, c.pos), 0 - c.val, acc))

\* array blocks until the block count 0
ReadBlocks(b, pos, acc) == ReadBlock(b, ReadLong(b, pos), acc)

ReadValue(type, b, pos) ==
    CASE type = "string" -> ReadUtf8(b, pos)
      [] type = "int" -> ReadLong(b, pos)
      [] type = "array" -> ReadBlocks(b, pos, <<>>)

RECURSIVE ReadFields(_, _, _, _)

ReadFieldsAfter(b, r, fields, acc) ==
    IF r.ok
    THEN ReadFields(b, r.pos, Tail(fields), acc @@ (fields[1].name :> r.val))
    ELSE Failed

ReadFields(b, pos, fields, acc) ==
    IF Len(fields) = 0
    THEN Read(acc, pos)
    ELSE ReadFieldsAfter(b, ReadValue(fields[1].type, b, pos), fields, acc)

\* DatumReader.read: one record, from position pos
ReadRecord(b, pos, schema) == ReadFields(b, pos, schema.fields, [kind |-> "dict"])

\* reader.read(decoder) returns the datum or raises
DatumOrRaise(r) == IF r.ok THEN r.val ELSE Raised("ReadError")

decode_avro(binary_data, schema) == DatumOrRaise(ReadRecord(binary_data, 1, schema))

-----------------------------------------------------------------------------
(* the batch reader: three calls of read_from_avro, in this order *)

ReadOrder == <<"Recommendation", "Movie", "Rating">>

SchemaOf(c) ==
    CASE c = "Recommendation" -> recommendation_request_schema
      [] c = "Movie" -> movie_watch_schema
      [] c = "Rating" -> movie_rating_schema

\* the writer has ended and has left the three files behind
WriterEnded ==
    /\ pc \in {"done", "aborted"}
    /\ \A c \in Categories : handles[c] = "closed"

\* print(decoded_data), or the exception that ends the script
Surface(c, decoded_data) ==
    IF decoded_data.kind = "raise"
    THEN /\ rpc' = 0
         /\ surfaced' = Append(surfaced, [file |-> c, raised |-> decoded_data.exc])
    ELSE /\ rpc' = rpc + 1
         /\ surfaced' = Append(surfaced, [file |-> c, printed |-> decoded_data])

\* read_from_avro(file_path, schema), called for the three files in turn
read_from_avro ==
    /\ WriterEnded
    /\ rpc \in 1..Len(ReadOrder)
    /\ Surface(ReadOrder[rpc], decode_avro(files[ReadOrder[rpc]], SchemaOf(ReadOrder[rpc])))
    /\ UNCHANGED <<rows, pc, handles, idx, files, stdout, exc, last>>

-----------------------------------------------------------------------------
(* the CSV rows of a run *)

Row(t, e) == [Type |-> t, LogEntry |-> e]

MaxRows == 2

CandidateRows ==
    { Row("Recommendation", <<"2","0","2","3","-","0","8","-","0","1","T","1","0",":","1","5",":","3","0",".","1","2","3",",","4","2",",","r","e","c","o","m","m","e","n","d","a","t","i","o","n"," ","r","e","q","u","e","s","t"," ","s","r","v","1",","," ","s","t","a","t","u","s"," ","2","0","0",","," ","r","e","s","u","l","t",":"," ","t","t","0","0","1",","," ","t","t","0","0","2",","," ","1","5","0"," ","m","s">>),
      Row("Recommendation", <<"2","0","2","3","-","0","8","-","0","1","T","1","0",":","1","5",":","3","1",".","5",",","7",",","r","e","c","o","m","m","e","n","d","a","t","i","o","n"," ","r","e","q","u","e","s","t"," ","s","r","v","2",","," ","s","t","a","t","u","s"," ","O","K",","," ","r","e","s","u","l","t",":"," ","t","t","0","0","3",","," ","9","0"," ","m","s">>),
      Row("Recommendation", <<"2","0","2","3","-","0","8","-","0","1","T","1","0",":","1","5",":","3","2",".","5",",","7",",","r","e","q","u","e","s","t"," ","s","r","v","2",","," ","s","t","a","t","u","s"," ","2","0","0",","," ","r","e","s","u","l","t",":"," ","t","t","0","0","3",","," ","9","0"," ","m","s">>),
      Row("Movie", <<"2","0","2","3","-","0","8","-","0","1","T","1","0",":","1","6",":","0","0",",","4","2",",","G","E","T"," ","/","d","a","t","a","/","m","/","T","h","e","+","M","a","t","r","i","x","/","5",".","m","p","g">>),
      Row("Movie", <<"2","0","2","3","-","0","8","-","0","1","T","1","0",":","1","6",":","3","0",",","7",",","G","E","T"," ","/","d","a","t","a","/","m","/","a","+","/","b","+","c","/","1","2",".","m","p","g">>),
      Row("Movie", <<"g","a","r","b","a","g","e"," ","l","i","n","e">>),
      Row("Rating", <<"2","0","2","3","-","0","8","-","0","1","T","1","0",":","1","7",":","0","0",",","4","2",",","/","d","a","t","a","/","m","/","I","n","c","e","p","t","i","o","n","=","4">>),
      Row("Rating", <<"2","0","2","3","-","0","8","-","0","1","T","1","0",":","1","7",":","1","0",",","4","2",",","/","d","a","t","a","/","m","/","U","p","=","4","=","5">>),
      Row("Rating", <<"2","0","2","3","-","0","8","-","0","1","T","1","0",":","1","7",":","2","0",",","4","2",",","/","d","a","t","a","/","m","/","U","p","=","3",",","e","x","t","r","a">>),
      Row("Rating", <<"2","0","2","3","-","0","8","-","0","1","T","1","0",":","1","7",":","3","0",",","4","2">>),
      Row("Rating", <<"2","0","2","3","-","0","8","-","0","1","T","1","0",":","1","7",":","4","0",",","4","2",",","/","d","a","t","a","/","m","/","U","p">>),
      Row("Rating", <<"2","0","2","3","-","0","8","-","0","1","T","1","0",":","1","7",":","5","0",",","u","4","2",",","/","d","a","t","a","/","m","/","U","p","=","4">>),
      Row("Other", <<"2","0","2","3","-","0","8","-","0","1","T","1","0",":","1","6",":","0","0",",","4","2",",","G","E","T"," ","/","d","a","t","a","/","m","/","T","h","e","+","M","a","t","r","i","x","/","5",".","m","p","g">>) }

RECURSIVE SeqsUpTo(_, _)
SeqsUpTo(S, n) ==
    IF n = 0
    THEN {<<>>}
    ELSE SeqsUpTo(S, n - 1) \cup {Append(q, x) : q \in SeqsUpTo(S, n - 1), x \in S}

-----------------------------------------------------------------------------
Init ==
    /\ rows \in SeqsUpTo(CandidateRows, MaxRows)
    /\ pc = "start"
    /\ handles = Unopened
    /\ idx = 0
    /\ files = [c \in Categories |-> <<>>]
    /\ stdout = <<>>
    /\ exc = None
    /\ last = None
    /\ rpc = 1
    /\ surfaced = <<>>

Next ==
    \/ LoadSchemas
    \/ OpenFiles
    \/ ProcessRow
    \/ Finish
    \/ read_from_avro

Spec == Init /\ [][Next]_vars

-----------------------------------------------------------------------------
(* The properties of a run *)

Done == [msg |-> "Binary Avro data has been written to files."]

\* the row the latest call of the dispatcher was given: a call that raised left
\* idx where it was
LastRow == IF last.kind = "raise" THEN rows[idx + 1] ELSE rows[idx]

\* the latest call of the dispatcher returned a record
LastRecord == last.kind = "return" /\ last.value[1].kind = "dict"

RECURSIVE RecordsFrom(_, _, _, _)

RecordsAfter(b, r, schema, acc) ==
    IF r.ok THEN RecordsFrom(b, r.pos, schema, Append(acc, r.val)) ELSE Failed

\* the records a stream holds: one datum after the other until the bytes end
RecordsFrom(b, pos, schema, acc) ==
    IF pos > Len(b)
    THEN [ok |-> TRUE, val |-> acc]
    ELSE RecordsAfter(b, ReadRecord(b, pos, schema), schema, acc)

RecordsIn(c) == RecordsFrom(files[c], 1, SchemaOf(c), <<>>)

\* the dispatcher's outcome for a row, and whether it is a record
Outcome(row) == identify_and_parse_log_entry(row.Type, row.LogEntry)

Parses(row) == Outcome(row).kind = "return" /\ Outcome(row).value[1].kind = "dict"

RECURSIVE ParsedRows(_, _)
\* the records of the rows of category c among the first n rows, in row order
ParsedRows(c, n) ==
    IF n = 0 THEN <<>>
    ELSE IF rows[n].Type = c /\ Parses(rows[n])
    THEN Append(ParsedRows(c, n - 1), Outcome(rows[n]).value[1])
    ELSE ParsedRows(c, n - 1)

IsPrefix(p, q) == Len(p) <= Len(q) /\ SubSeq(q, 1, Len(p)) = p

Positions(s, ch) == {k \in 1..Len(s) : s[k] = ch}

\* the position of the n-th ch of s, Len(s) + 1 when there are fewer
Nth(s, ch, n) ==
    IF Cardinality(Positions(s, ch)) < n
    THEN Len(s) + 1
    ELSE CHOOSE k \in Positions(s, ch) :
            Cardinality({j \in Positions(s, ch) : j < k}) = n - 1

\* the third comma-separated part of a line with at least two commas
ThirdPart(s) == SubSeq(s, Nth(s, ",", 2) + 1, Nth(s, ",", 3) - 1)

\* the text after the last "/" of s, s itself when it has none
AfterLastSlash(s) ==
    IF Positions(s, "/") = {} THEN s
    ELSE SubSeq(s, SetMax(Positions(s, "/")) + 1, Len(s))

-----------------------------------------------------------------------------
\* C1: whatever the rows are, the writer processes every row, skips (and
\* reports, never raises on) each row that cannot be parsed, reaches the end of
\* the batch and prints the final confirmation: a run whose files could be
\* opened never aborts, and a finished run has handled all rows.
C1_BatchAlwaysCompletes ==
    /\ pc = "aborted" => exc = Raised("OSError")
    /\ pc = "done" => idx = Len(rows) /\ stdout[Len(stdout)] = Done

\* C2: after the writer has run, each category's stream holds as many records
\* as there are input rows of that category whose parse did not fail.
C2_RecordCountsMatch ==
    (pc \in {"done", "aborted"} /\ exc # Raised("OSError")) =>
        \A c \in Categories :
            /\ RecordsIn(c).ok
            /\ Len(RecordsIn(c).val) = Len(ParsedRows(c, Len(rows)))

\* C3: a row with an unknown Type tag makes the dispatcher return (None, None),
\* leaves the three streams and the handles as they are, and the loop goes on
\* to the next row.
C3_UnknownTagSkipped ==
    [][(pc = "loop" /\ idx < Len(rows) /\ rows[idx + 1].Type \notin Categories) =>
          /\ last' = Returned(<<None, None>>)
          /\ files' = files
          /\ handles' = handles
          /\ pc' = "loop"
          /\ idx' = idx + 1]_vars

\* C3 witness: an unknown-tag row was skipped and a later row was written
C3_Witness ==
    /\ pc = "done"
    /\ Len(rows) >= 2
    /\ rows[1].Type \notin Categories
    /\ \E c \in Categories : files[c] # <<>>

\* the values the reader surfaced for file c
SurfacedFor(c) ==
    SelectSeq(surfaced, LAMBDA e : e.file = c)

\* C4: for each stream the reader has read, holding n >= 0 records, it has
\* surfaced exactly those n records in written order, without failing.
C4_ReaderSurfacesEveryRecord ==
    \A c \in Categories :
        SurfacedFor(c) # <<>> =>
            /\ \A k \in 1..Len(SurfacedFor(c)) : "printed" \in DOMAIN SurfacedFor(c)[k]
            /\ RecordsIn(c).ok
            /\ Len(SurfacedFor(c)) = Len(RecordsIn(c).val)
            /\ \A k \in 1..Len(SurfacedFor(c)) :
                   SurfacedFor(c)[k].printed = RecordsIn(c).val[k]

\* C5: the dispatcher returns an absent schema exactly when it returns an
\* absent record: a failed parse gives the pair (None, None).
C5_SchemaAbsentIffRecordAbsent ==
    last.kind = "return" =>
        ((last.value[1] = None) <=> (last.value[2] = None))

\* each stream of fs holds exactly the records of the parsed rows of its
\* category among the first n rows, in row order
StreamsHold(fs, n) ==
    \A c \in Categories :
        /\ RecordsFrom(fs[c], 1, SchemaOf(c), <<>>).ok
        /\ RecordsFrom(fs[c], 1, SchemaOf(c), <<>>).val = ParsedRows(c, n)

\* C6: at every step of the run the streams are only appended to, a row appends
\* at most one record and only to the stream of its own category, and each
\* stream holds exactly the records of the successfully parsed rows of its
\* category processed so far, in CSV row order.
C6_StreamsAppendOnlyInRowOrder ==
    [][/\ \A c \in Categories : IsPrefix(files[c], files'[c])
       /\ files' # files =>
            /\ pc = "loop" /\ idx < Len(rows)
            /\ \A c \in Categories : files'[c] # files[c] => c = rows[idx + 1].Type
            /\ \A c \in Categories :
                 files'[c] # files[c] =>
                    Len(RecordsFrom(files'[c], 1, SchemaOf(c), <<>>).val) =
                        Len(RecordsIn(c).val) + 1
       /\ StreamsHold(files', idx')]_vars

\* C6 witness: two rows of one category were written, and the stream holds their
\* two different records
C6_Witness ==
    /\ RecordsIn("Movie").ok
    /\ Len(RecordsIn("Movie").val) = 2
    /\ RecordsIn("Movie").val[1] # RecordsIn("Movie").val[2]
    /\ idx = 2

\* C7: the four handles are all open before the first row is processed and
\* none is open once the run has ended, however it ended and however many rows
\* failed to parse.
C7_HandlesScoped ==
    /\ (pc = "loop" \/ last # None) => \A h \in DOMAIN handles : handles[h] # "unopened"
    /\ pc = "loop" => \A h \in DOMAIN handles : handles[h] = "open"
    /\ pc \in {"done", "aborted"} => \A h \in DOMAIN handles : handles[h] # "open"

\* C7 witness: a run aborted part-way, after a row was processed, has closed
\* the four handles
C7_Witness ==
    /\ pc = "aborted"
    /\ idx >= 1
    /\ last.kind = "raise"
    /\ \A h \in DOMAIN handles : handles[h] = "closed"

\* C8: parse_recommendation either reports failure or returns a record whose
\* userid and status are integers; it never raises.
C8_RecommendationNeverRaises ==
    (last # None /\ LastRow.Type = "Recommendation") =>
        /\ last.kind = "return"
        /\ last.value[1] # None =>
              last.value[1].userid \in Int /\ last.value[1].status \in Int

\* C9 as claimed: a rating line is split into exactly three parts and its third
\* part once on "=": movieid is the last "/" segment of the left side, rating is
\* all that follows the first "=", and a line of more than three parts is not
\* accepted.
C9_RatingSplitOnce ==
    (LastRecord /\ LastRow.Type = "Rating") =>
        /\ Cardinality(Positions(LastRow.LogEntry, ",")) = 2
        /\ last.value[1].movieid =
              AfterLastSlash(SubSeq(ThirdPart(LastRow.LogEntry), 1,
                                    Nth(ThirdPart(LastRow.LogEntry), "=", 1) - 1))
        /\ last.value[1].rating =
              SubSeq(ThirdPart(LastRow.LogEntry),
                     Nth(ThirdPart(LastRow.LogEntry), "=", 1) + 1,
                     Len(ThirdPart(LastRow.LogEntry)))

\* C9 as amended: of a rating line that has at least three comma-separated
\* parts, an integer second part and a "=" in the third part, parse_rating
\* uses the first three parts and ignores the rest; movieid is the last "/"
\* segment of the third part's text before its first "=", and rating is the
\* text between the first "=" and the second "=" of the third part (all that
\* follows the first "=" only when there is no second one).
C9_RatingSplitEvery ==
    (last # None /\ LastRow.Type = "Rating"
        /\ Cardinality(Positions(LastRow.LogEntry, ",")) >= 2
        /\ IntParses(SubSeq(LastRow.LogEntry, Nth(LastRow.LogEntry, ",", 1) + 1,
                            Nth(LastRow.LogEntry, ",", 2) - 1))
        /\ Positions(ThirdPart(LastRow.LogEntry), "=") # {}) =>
        /\ LastRecord
        /\ last.value[1].time =
              SubSeq(LastRow.LogEntry, 1, Nth(LastRow.LogEntry, ",", 1) - 1)
        /\ last.value[1].movieid =
              AfterLastSlash(SubSeq(ThirdPart(LastRow.LogEntry), 1,
                                    Nth(ThirdPart(LastRow.LogEntry), "=", 1) - 1))
        /\ last.value[1].rating =
              SubSeq(ThirdPart(LastRow.LogEntry),
                     Nth(ThirdPart(LastRow.LogEntry), "=", 1) + 1,
                     Nth(ThirdPart(LastRow.LogEntry), "=", 2) - 1)

\* C9 witness: a rating line with a second "=" in its third part was parsed
C9_Witness ==
    /\ LastRecord
    /\ LastRow.Type = "Rating"
    /\ Cardinality(Positions(ThirdPart(LastRow.LogEntry), "=")) = 2
    /\ Len(last.value[1].rating) = 1

DataPath == <<"/","d","a","t","a","/","m","/">>

\* C10: of a line the movie-watch parser accepts, movieid is the text between
\* "/data/m/" and "/<minute>.mpg" with every "+" replaced by a space and every
\* other character as it was (same length), userid is an integer and minute is
\* the text of the digits.
C10_MovieIdPlusToSpace ==
    (LastRecord /\ LastRow.Type = "Movie") =>
        /\ last.value[1].userid \in Int
        /\ \A k \in 1..Len(last.value[1].minute) : IsDigit(last.value[1].minute[k])
        /\ \E m \in 1..Len(LastRow.LogEntry) :
              /\ HasAt(LastRow.LogEntry, m - Len(DataPath), DataPath)
              /\ HasAt(LastRow.LogEntry, m + Len(last.value[1].movieid),
                       <<"/">> \o last.value[1].minute \o MpgSuffix)
              /\ \A k \in 1..Len(last.value[1].movieid) :
                    last.value[1].movieid[k] =
                        IF LastRow.LogEntry[m + k - 1] = "+"
                        THEN " "
                        ELSE LastRow.LogEntry[m + k - 1]

\* C10 witness: a movie identifier with two "+" and a "/" in it was parsed
C10_Witness ==
    /\ LastRecord
    /\ LastRow.Type = "Movie"
    /\ Cardinality(Positions(last.value[1].movieid, " ")) = 2
    /\ Positions(last.value[1].movieid, "/") # {}
====
